---- MODULE Spec2Model ----
(***************************************************************************)
(* Cache Manager (app/utils/supabase_cache.py over app/db/supabase.py) and *)
(* the Yahoo retry wrapper (app/utils/fmp_client.py) of fin-path-insight.  *)
(*                                                                         *)
(* Optional values (Python's Optional[...]) are sequences of length <= 1:  *)
(* <<>> is None, <<v>> is the value v.  The cache table is a bag of rows:  *)
(* its physical order is unspecified, and only its PRIMARY KEY keeps two   *)
(* rows of one key apart.                                                  *)
(***************************************************************************)
EXTENDS Integers, Sequences, FiniteSets, Bags, TLC

\* ------------------------------------------------------------------ bounds

\* settings.SUPABASE_TTL_CACHE, seconds.
SUPABASE_TTL_CACHE == 3600

\* The cache clock advances in steps of SUPABASE_TTL_CACHE / TicksPerTTL s.
TicksPerTTL == 2

TickLen == SUPABASE_TTL_CACHE \div TicksPerTTL

\* The cache clock stops one step past the TTL: ages below, at and above it.
MaxNow == SUPABASE_TTL_CACHE + TickLen

NumValues == 2

\* One cache key: every handler contends for the same row.
Keys == {"k1"}

Values == 1 .. NumValues

\* Concurrent request handlers (coroutines of the event loop, or instances).
Procs == {"h1", "h2"}

\* The ttl arguments callers pass to set_cached_data: none
\* (scripts/update_market_data.py:58) or 900 (routes/fingenie.py:195).
TtlArgs == {<<>>, <<900>>}

None == <<>>

Some(v) == <<v>>

VARIABLES
    store,        \* public.cache: the bag of its rows
    now,          \* the clock, seconds (the store's and the app's)
    health,       \* "up": store calls succeed; "down": every store call fails
    alwaysDown,   \* history: the store has been down since the start
    written_ttl,  \* history: per key, the ttl argument its row was written with
    pc,           \* per handler: "idle", "set_insert", "get_delete"
    call,         \* per handler: the arguments of the call in progress, and
                  \* (history) whether its delete removed another value
    last,         \* history: what the step just taken did and returned
    prev_get,     \* history: the latest staleness check of a row written with a ttl
    yahoo_request_timestamps,  \* fmp_client's module-level list
    ynow,         \* the event loop's clock, ticks
    rpc,          \* per task: where its perform_yahoo_request stands
    attempt,      \* per task: the loop variable
    wake,         \* per task: when its pending asyncio.sleep ends
    outs,         \* history, per task: how each upstream invocation ended
    delays,       \* history, per task: the backoff computed after each 429
    ret,          \* per task: the returned result (the invocation it came from)
    ylast,        \* history: what the retry wrapper's step just taken did
    call_ticks,   \* how long an upstream call of this run blocks the event loop
    items,        \* batch_process: its items argument
    batch_size,   \* batch_process: its batch_size argument
    loop_i,       \* batch_process: the loop variable i
    results,      \* batch_process: the results list
    bpc,          \* batch_process: "loop", "gather", "sleep", "returned", "raised"
    calls,        \* per item position: "unissued", "running", "returned", "raised"
    completed,    \* history: the item positions in the order their calls ended
    api_cache,    \* fmp_client's module-level dict: per symbol, (cache_time, cache_data)
    fnow,         \* fetch_stock_data's clock, minutes
    fpc,          \* fetch_stock_data: "idle", "primary", "secondary", "returned", "raised"
    symbol,       \* fetch_stock_data: its symbol argument
    upstream,     \* history: the upstream calls of this fetch and how each ended
    fret,         \* fetch_stock_data: what it returned
    route_pc,     \* per handler: where its get_latest_news request stands
    trace,        \* history, per handler: the calls its request made, with results
    response,     \* per handler: the response of its request
    deadline,     \* TimeoutMiddleware: when the timer of asyncio.wait_for is due
    client,       \* TimeoutMiddleware: "none", "pending" or "answered"
    responded,    \* history: when the client was answered, and with what
    opc,          \* update_market_overview: its position
    market_data,  \* update_market_overview: what fetch_indian_market_overview gave
    overview_cached  \* update_market_overview: its if branch was taken

cacheVars == <<store, now, health, alwaysDown, written_ttl, pc, call, last, prev_get>>

retryVars == <<yahoo_request_timestamps, ynow, rpc, attempt, wake, outs, delays, ret, ylast,
               call_ticks>>

batchVars == <<items, batch_size, loop_i, results, bpc, calls, completed>>

vars == <<store, now, health, alwaysDown, written_ttl, pc, call, last, prev_get,
          yahoo_request_timestamps, ynow, rpc, attempt, wake, outs, delays, ret, ylast,
          call_ticks,
          items, batch_size, loop_i, results, bpc, calls, completed,
          api_cache, fnow, fpc, symbol, upstream, fret,
          route_pc, trace, response, deadline, client, responded,
          opc, market_data, overview_cached>>

routeVars == <<route_pc, trace, response>>

timeoutVars == <<deadline, client, responded>>

overviewVars == <<opc, market_data, overview_cached>>

fetchVars == <<api_cache, fnow, fpc, symbol, upstream, fret>>

\* What the steps of one component leave alone.
nonCacheVars == <<retryVars, batchVars, fetchVars, routeVars, timeoutVars, overviewVars>>

nonRetryVars == <<cacheVars, batchVars, fetchVars, routeVars, timeoutVars, overviewVars>>

nonBatchVars == <<cacheVars, retryVars, fetchVars, routeVars, timeoutVars, overviewVars>>

nonFetchVars == <<cacheVars, retryVars, batchVars, routeVars, timeoutVars, overviewVars>>

\* A route handler steps through the cache functions as well.
nonRouteVars == <<retryVars, batchVars, fetchVars, timeoutVars, overviewVars>>

\* The middleware's timer cancels the perform_yahoo_request call it wraps.
nonTimeoutVars == <<cacheVars, batchVars, fetchVars, routeVars, overviewVars>>

\* update_market_overview touches nothing of the other components before
\* its if branch.
nonOverviewVars == <<cacheVars, retryVars, batchVars, fetchVars, routeVars, timeoutVars>>

\* ------------------------------------------------- SupabaseClient (db/supabase.py)

\* How one HTTP call to the store ends: 2xx, a transport failure
\* (httpx.RequestError, or any other exception), an error status other than
\* 404, or 404.
FailKinds == {"request_error", "http_error", "http_404"}

Outcomes(h) == IF h = "up" THEN {"ok"} ELSE FailKinds

Min(a, b) == IF a <= b THEN a ELSE b

\* The rows a filter {"key": "eq.<k>"} keeps, k in keys; no filter: all keys.
Matching(rows, keys) ==
    [r \in {x \in DOMAIN rows : x.key \in keys} |-> rows[r]]

NotMatching(rows, keys) ==
    [r \in {x \in DOMAIN rows : x.key \notin keys} |-> rows[r]]

\* The answers to a query with ?limit=n: any n of the rows, all when fewer.
Limited(rows, n) ==
    {b \in SubBag(rows) : BagCardinality(b) = Min(n, BagCardinality(rows))}

\* select's default limit.
DefaultLimit == 100

\* SupabaseClient.select: the rows on 2xx; [] on 404 and on a transport
\* failure; re-raises any other error status.
SupabaseSelect(answer, outcome) ==
    CASE outcome = "ok" -> [raised |-> FALSE, data |-> answer]
      [] outcome = "http_error" -> [raised |-> TRUE, data |-> EmptyBag]
      [] OTHER -> [raised |-> FALSE, data |-> EmptyBag]

\* The table without its PRIMARY KEY: every insert is accepted.
PrimaryKeyFree_Unconstrained(rows, key) == TRUE

\* key TEXT PRIMARY KEY: an insert of a key already present is refused (409).
PrimaryKeyFree(rows, key) == Matching(rows, {key}) = EmptyBag

\* An insert that answers a duplicate key with the row already there
\* (resolution=ignore-duplicates) instead of failing.
SupabaseInsert_IgnoreDuplicate(rows, item, t, outcome) ==
    LET row == [key |-> item.key, value |-> item.value, created_at |-> t, reads |-> "iso"]
    IN  IF outcome # "ok"
        THEN [data |-> EmptyBag, store |-> rows]
        ELSE IF Matching(rows, {item.key}) = EmptyBag
             THEN [data |-> SetToBag({row}), store |-> rows (+) SetToBag({row})]
             ELSE [data |-> Matching(rows, {item.key}), store |-> rows]

\* SupabaseClient.insert: the inserted row (return=representation) on 2xx,
\* created_at set by the column default; {} on every failure.
SupabaseInsert(rows, item, t, outcome) ==
    LET row == [key |-> item.key, value |-> item.value, created_at |-> t, reads |-> "iso"]
    IN  IF outcome = "ok" /\ PrimaryKeyFree(rows, item.key)
        THEN [data |-> SetToBag({row}), store |-> rows (+) SetToBag({row})]
        ELSE [data |-> EmptyBag, store |-> rows]

\* A delete that is answered 2xx and removes nothing.
SupabaseDelete_KeepsRows(rows, keys, outcome) ==
    [data |-> EmptyBag, store |-> rows]

\* SupabaseClient.delete: the deleted rows on 2xx; {} on every failure.
SupabaseDelete(rows, keys, outcome) ==
    IF outcome = "ok"
    THEN [data |-> Matching(rows, keys), store |-> NotMatching(rows, keys)]
    ELSE [data |-> EmptyBag, store |-> rows]

\* DELETE FROM public.cache WHERE created_at < NOW() - INTERVAL 'ttl seconds';
\* the comparison is not true of a NULL created_at.
IsSqlExpired(r, t) == r.reads # "empty" /\ r.created_at < t - SUPABASE_TTL_CACHE

\* SupabaseClient.execute_query (rpc/execute_sql): the statement's rows on
\* 2xx; [] on every failure, none of which is re-raised.
SupabaseExecuteQuery(rows, sql, t, outcome) ==
    IF outcome = "ok" /\ sql = "delete_expired"
    THEN [raised |-> FALSE,
          data |-> [r \in {x \in DOMAIN rows : IsSqlExpired(x, t)} |-> rows[r]],
          store |-> [r \in {x \in DOMAIN rows : ~IsSqlExpired(x, t)} |-> rows[r]]]
    ELSE [raised |-> FALSE, data |-> EmptyBag, store |-> rows]

\* What one store call can answer while the store's health is h.
SelectResults(rows, keys, limit, h) ==
    {SupabaseSelect(a, o) : a \in Limited(Matching(rows, keys), limit), o \in Outcomes(h)}

InsertResults(rows, item, t, h) ==
    {SupabaseInsert(rows, item, t, o) : o \in Outcomes(h)}

DeleteResults(rows, keys, h) ==
    {SupabaseDelete(rows, keys, o) : o \in Outcomes(h)}

\* rpc/execute_sql is a function the database may not define: 404 then.
QueryResults(rows, sql, t, h) ==
    {SupabaseExecuteQuery(rows, sql, t, o) : o \in Outcomes(h) \cup {"http_404"}}

\* ------------------------------------------- Cache Manager (utils/supabase_cache.py)

\* ensure_cache_table_exists: true when the probing select does not raise;
\* when it raises and the message names a missing table, true when the
\* CREATE TABLE query does not raise; false otherwise.
EnsureCacheTableExists(probe, msgMissing, create) ==
    IF ~probe.raised
    THEN TRUE
    ELSE IF msgMissing THEN ~create.raised ELSE FALSE

\* What ensure_cache_table_exists can return while the store's health is h.
EnsureResults(rows, t, h) ==
    {EnsureCacheTableExists(probe, msgMissing, create) :
        probe \in SelectResults(rows, Keys, 1, h), msgMissing \in BOOLEAN,
        create \in QueryResults(rows, "create_table", t, h)}

\* How the created_at of a row reads in the answer of a select: an ISO 8601
\* string datetime.fromisoformat accepts, a string it rejects, or nothing
\* (the column is nullable).  A row has created_at (the instant the column
\* holds, 0 for NULL) and reads.
Forms == {"iso", "unparseable", "empty"}

\* cache_item.get("created_at")
CreatedAtStr(item) == [reads |-> item.reads, at |-> item.created_at]

\* if not created_at_str
IsMissing(created_at_str) == created_at_str.reads = "empty"

\* get_cached_data's timestamp parsing: the instant the string denotes on
\* each of the three format branches, None when fromisoformat raises.
ParseCreatedAt(created_at_str) ==
    IF created_at_str.reads = "iso" THEN Some(created_at_str.at) ELSE None

\* The except clause of the parsing: now - (ttl + 1), to force expiration.
CreatedAtOr(parsed, t) == IF parsed = None THEN t - (SUPABASE_TTL_CACHE + 1) ELSE parsed[1]

\* A staleness TTL that honours the ttl argument the row was written with.
StalenessTTL_PerEntry(item) ==
    IF written_ttl[item.key] = None THEN SUPABASE_TTL_CACHE ELSE written_ttl[item.key][1]

\* The TTL get_cached_data checks a row against.
StalenessTTL(item) == SUPABASE_TTL_CACHE

\* The comparison with <= for <: an entry aged exactly the TTL is served.
IsFresh_Inclusive(item, created_at, t) == t - created_at <= StalenessTTL(item)

\* datetime.now(utc) - created_at < timedelta(seconds=ttl)
IsFresh(item, created_at, t) == t - created_at < StalenessTTL(item)

\* set_cached_data's cache_item: key and value, nothing of ttl.
CacheItem(key, data, ttl) == [key |-> key, value |-> data]

\* clear_expired_cache's manual scan: now - created_at > timedelta(seconds=ttl)
\* A row without created_at is skipped, one whose created_at does not parse
\* raises into the per-item except clause: neither is deleted.
IsScanExpired(r, t) ==
    /\ ~IsMissing(CreatedAtStr(r))
    /\ ParseCreatedAt(CreatedAtStr(r)) # None
    /\ t - ParseCreatedAt(CreatedAtStr(r))[1] > SUPABASE_TTL_CACHE

\* clear_expired_cache's fallback: every scanned row found expired is deleted
\* by key and counted, whether or not its delete succeeded; -1 when the scan
\* raises.
ManualSweep(rows, t, scan, outcome) ==
    IF scan.raised
    THEN [ret |-> -1, store |-> rows]
    ELSE LET expired == {r \in DOMAIN scan.data : IsScanExpired(r, t)}
         IN  [ret |-> BagCardinality([r \in expired |-> scan.data[r]]),
              store |-> SupabaseDelete(rows, {r.key : r \in expired}, outcome).store]

\* clear_expired_cache after its table check: the SQL delete's row count, or
\* the manual scan when the query raises.
SweepResults(rows, t, h) ==
    UNION {IF q.raised
           THEN {ManualSweep(rows, t, scan, o) :
                    scan \in SelectResults(rows, Keys, DefaultLimit, h), o \in Outcomes(h)}
           ELSE {[ret |-> BagCardinality(q.data), store |-> q.store]} :
           q \in QueryResults(rows, "delete_expired", t, h)}

\* ------------------------------------------------ retry wrapper (utils/fmp_client.py)

\* Ticks of the event loop's clock per second.
TicksPerSecond == 4

YAHOO_RATE_LIMIT_WINDOW == 60

YAHOO_MAX_REQUESTS == 5

max_retries == 5

base_delay == 2

\* asyncio.sleep(1) after an error that is no rate limit.
ErrorRetryDelay == 1

\* The small buffer added to a rate-limit wait: 0.5 s.
WaitBuffer == TicksPerSecond \div 2

\* random.random() * 0.5: below half a second.
Jitters == 0 .. (WaitBuffer - 1)

\* Requests recorded before the call under study, all at the clock's start.
MaxPrior == 4

\* The coroutine running the perform_yahoo_request call under study.
Tasks == {"t1"}

\* Coroutines of one event loop calling perform_yahoo_request concurrently
\* (the items of a batch_process group, or two request handlers).
Callers == {"t1", "t2"}

\* The window, in ticks.
WindowTicks == YAHOO_RATE_LIMIT_WINDOW * TicksPerSecond

\* How one invocation of func ends: a result, an exception whose text holds
\* "429" or "Too Many Requests", or any other exception.
UpstreamOutcomes == {"ok", "429", "error"}

RECURSIVE Pow2(_)
Pow2(n) == IF n = 0 THEN 1 ELSE 2 * Pow2(n - 1)

RECURSIVE SeqMin(_)
SeqMin(s) == IF Len(s) = 1 THEN s[1] ELSE Min(s[1], SeqMin(Tail(s)))

Max(a, b) == IF a >= b THEN a ELSE b

\* A pruning that keeps a timestamp aged exactly the window.
Pruned_Inclusive(ts, t) == SelectSeq(ts, LAMBDA x : t - x <= WindowTicks)

\* check_rate_limit's pruning: the timestamps younger than the window.
Pruned(ts, t) == SelectSeq(ts, LAMBDA x : t - x < WindowTicks)

\* check_rate_limit: (can_proceed, wait_time) over the pruned list.
CheckRateLimit(ts, t) ==
    LET kept == Pruned(ts, t)
    IN  IF Len(kept) >= YAHOO_MAX_REQUESTS
        THEN [can_proceed |-> FALSE,
              wait_time |-> Max(0, WindowTicks - (t - SeqMin(kept))),
              timestamps |-> kept]
        ELSE [can_proceed |-> TRUE, wait_time |-> 0, timestamps |-> kept]

\* A linear backoff: base_delay * (attempt + 1).
BackoffBase_Linear(n) == base_delay * (n + 1)

\* The jitter-free part of the backoff: base_delay * (2 ** attempt), seconds.
BackoffBase(n) == base_delay * Pow2(n)

\* delay = (base_delay * (2 ** attempt)) + (random.random() * 0.5), ticks.
BackoffDelay(n, jitter) == BackoffBase(n) * TicksPerSecond + jitter

\* range(max_retries + 1): one attempt too many.
InRange_Inclusive(n) == n <= max_retries

\* for attempt in range(max_retries)
InRange(n) == n < max_retries

\* An except clause that sleeps and retries after the last attempt as well.
RetriesRemain_Always(n) == TRUE

\* if attempt < max_retries - 1
RetriesRemain(n) == n < max_retries - 1

\* ------------------------------------------------------------------ history

Quiet == [ev |-> "none"]

\* A check_rate_limit execution: the list it found and what it answered.
RateChecked(t, before, chk) ==
    [ev |-> "check", task |-> t, at |-> ynow, before |-> before,
     can_proceed |-> chk.can_proceed, wait_time |-> chk.wait_time]

NoCall == [key |-> "-"]

NoGet == [found |-> FALSE]

\* A staleness check: the age of the row the select returned, the ttl
\* argument it had been written with, and whether it was taken as fresh.
Checked(age, wttl, fresh) == [found |-> TRUE, age |-> age, wttl |-> wttl, fresh |-> fresh]

\* written_ttl, forgotten for the keys that have no row.
Written(rows, w) ==
    [k \in Keys |-> IF Matching(rows, {k}) = EmptyBag THEN None ELSE w[k]]

StoreIs(rows) ==
    /\ store' = rows
    /\ written_ttl' = Written(rows, written_ttl)

Finish(p, event) ==
    /\ pc' = [pc EXCEPT ![p] = "idle"]
    /\ call' = [call EXCEPT ![p] = NoCall]
    /\ last' = event

\* ------------------------------------------------------------------ actions

CacheInit ==
    /\ store = EmptyBag
    /\ now = 0
    /\ health \in {"up", "down"}
    /\ alwaysDown = (health = "down")
    /\ written_ttl = [k \in Keys |-> None]
    /\ pc = [p \in Procs |-> "idle"]
    /\ call = [p \in Procs |-> NoCall]
    /\ last = Quiet
    /\ prev_get = NoGet

RetryIdle ==
    /\ yahoo_request_timestamps = <<>>
    /\ ynow = 0
    /\ rpc = [t \in Tasks |-> "attempting"]
    /\ attempt = [t \in Tasks |-> 0]
    /\ wake = [t \in Tasks |-> 0]
    /\ outs = [t \in Tasks |-> <<>>]
    /\ delays = [t \in Tasks |-> <<>>]
    /\ ret = [t \in Tasks |-> None]
    /\ ylast = Quiet
    /\ call_ticks = 0

\* get_cached_data(k) up to its return or to the delete of an expired row.
GetSelect(p, k) ==
    /\ pc[p] = "idle"
    /\ \E ens \in EnsureResults(store, now, health) :
        \E sel \in SelectResults(store, {k}, 1, health) :
            IF ~ens \/ sel.raised \/ sel.data = EmptyBag
            THEN /\ Finish(p, [ev |-> "get", key |-> k, ret |-> None, check |-> NoGet,
                                expired |-> FALSE, reads |-> "none"])
                 /\ prev_get' = prev_get
            ELSE \E item \in BagToSet(sel.data) :
                 IF IsMissing(CreatedAtStr(item))
                 THEN /\ Finish(p, [ev |-> "get", key |-> k, ret |-> None, check |-> NoGet,
                                     expired |-> FALSE, reads |-> item.reads])
                      /\ prev_get' = prev_get
                 ELSE
                 LET created == CreatedAtOr(ParseCreatedAt(CreatedAtStr(item)), now)
                     fresh == IsFresh(item, created, now)
                     check == Checked(now - created, written_ttl[k], fresh)
                 IN  /\ prev_get' = IF written_ttl[k] # None THEN check ELSE prev_get
                     /\ IF fresh
                        THEN Finish(p, [ev |-> "get", key |-> k, ret |-> Some(item.value),
                                        check |-> check, expired |-> FALSE,
                                        value |-> item.value, reads |-> item.reads])
                        ELSE /\ pc' = [pc EXCEPT ![p] = "get_delete"]
                             /\ call' = [call EXCEPT ![p] = [key |-> k, reads |-> item.reads]]
                             /\ last' = [ev |-> "get_expired", key |-> k, check |-> check,
                                         value |-> item.value]
    /\ UNCHANGED <<store, now, health, alwaysDown, written_ttl>>

\* A request handler calls get_cached_data with any key.
GetCachedData(p) ==
    /\ \E k \in Keys : GetSelect(p, k)
    /\ UNCHANGED nonCacheVars

\* get_cached_data's delete of the expired row, its failure ignored.
GetDelete(p) ==
    /\ pc[p] = "get_delete"
    /\ \E del \in DeleteResults(store, {call[p].key}, health) :
        /\ StoreIs(del.store)
        /\ Finish(p, [ev |-> "get", key |-> call[p].key, ret |-> None, check |-> NoGet,
                       expired |-> TRUE, accepted |-> (Outcomes(health) = {"ok"}),
                       reads |-> call[p].reads])
    /\ UNCHANGED <<now, health, alwaysDown, prev_get>>

GetDeleteExpired(p) ==
    /\ GetDelete(p)
    /\ UNCHANGED nonCacheVars

\* Some row among those a delete removed was one get_cached_data serves at t.
HadFresh(rows, t) ==
    \E x \in BagToSet(rows) :
        /\ ~IsMissing(CreatedAtStr(x))
        /\ ParseCreatedAt(CreatedAtStr(x)) # None
        /\ IsFresh(x, ParseCreatedAt(CreatedAtStr(x))[1], t)

\* set_cached_data(k, d, ttl) up to its delete of the existing row.
SetDelete(p, k, d, ttl) ==
    /\ pc[p] = "idle"
    /\ \E ens \in EnsureResults(store, now, health) :
        \E del \in DeleteResults(store, {k}, health) :
            IF ~ens
            THEN /\ Finish(p, [ev |-> "set", key |-> k, data |-> d, ret |-> FALSE,
                                replaced |-> FALSE, removed |-> FALSE])
                 /\ StoreIs(store)
            ELSE /\ StoreIs(del.store)
                 /\ pc' = [pc EXCEPT ![p] = "set_insert"]
                 /\ call' = [call EXCEPT ![p] = [key |-> k, data |-> d, ttl |-> ttl,
                                                 replaced |-> \E r \in BagToSet(del.data) : r.value # d,
                                                 removed |-> del.data # EmptyBag]]
                 /\ last' = [ev |-> "set_deleted", key |-> k,
                             fresh |-> HadFresh(del.data, now)]
    /\ UNCHANGED <<now, health, alwaysDown, prev_get>>

\* A request handler calls set_cached_data with any key, value and ttl.
SetCachedData(p) ==
    /\ \E k \in Keys, d \in Values, ttl \in TtlArgs : SetDelete(p, k, d, ttl)
    /\ UNCHANGED nonCacheVars

\* set_cached_data's insert and return.
SetInsertRow(p) ==
    /\ pc[p] = "set_insert"
    /\ \E ins \in InsertResults(store, CacheItem(call[p].key, call[p].data, call[p].ttl),
                                 now, health) :
        LET c == call[p]
            success == ins.data # EmptyBag
        IN  /\ store' = ins.store
            /\ written_ttl' = IF success THEN [written_ttl EXCEPT ![c.key] = c.ttl]
                              ELSE written_ttl
            /\ Finish(p, [ev |-> "set", key |-> c.key, data |-> c.data, ret |-> success,
                           replaced |-> c.replaced, removed |-> c.removed])
    /\ UNCHANGED <<now, health, alwaysDown, prev_get>>

SetInsert(p) ==
    /\ SetInsertRow(p)
    /\ UNCHANGED nonCacheVars

\* delete_cached_data.
DeleteCachedData(p) ==
    /\ pc[p] = "idle"
    /\ \E k \in Keys, ens \in EnsureResults(store, now, health) :
        \E del \in DeleteResults(store, {k}, health) :
            IF ~ens
            THEN /\ Finish(p, [ev |-> "delete", key |-> k, ret |-> FALSE])
                 /\ StoreIs(store)
            ELSE /\ StoreIs(del.store)
                 /\ Finish(p, [ev |-> "delete", key |-> k, ret |-> TRUE])
    /\ UNCHANGED <<now, health, alwaysDown, prev_get>>
    /\ UNCHANGED nonCacheVars

\* clear_expired_cache (run by startup_event of an instance).
ClearExpiredCache(p) ==
    /\ pc[p] = "idle"
    /\ \E ens \in EnsureResults(store, now, health) :
        IF ~ens
        THEN /\ Finish(p, [ev |-> "sweep", ret |-> -1])
             /\ StoreIs(store)
        ELSE \E sw \in SweepResults(store, now, health) :
             /\ StoreIs(sw.store)
             /\ Finish(p, [ev |-> "sweep", ret |-> sw.ret])
    /\ UNCHANGED <<now, health, alwaysDown, prev_get>>
    /\ UNCHANGED nonCacheVars

Tick ==
    /\ now + TickLen <= MaxNow
    /\ now' = now + TickLen
    /\ last' = Quiet
    /\ UNCHANGED <<store, health, alwaysDown, written_ttl, pc, call, prev_get>>
    /\ UNCHANGED nonCacheVars

StoreDown ==
    /\ health = "up"
    /\ health' = "down"
    /\ last' = Quiet
    /\ UNCHANGED <<store, now, alwaysDown, written_ttl, pc, call, prev_get>>
    /\ UNCHANGED nonCacheVars

StoreUp ==
    /\ health = "down"
    /\ health' = "up"
    /\ alwaysDown' = FALSE
    /\ last' = Quiet
    /\ UNCHANGED <<store, now, written_ttl, pc, call, prev_get>>
    /\ UNCHANGED nonCacheVars

\* Recording the request and executing func, then the except clause.  func
\* is called, not awaited: the event loop runs nothing else until it returns
\* or raises, call_ticks later.
Invoke(t, ts) ==
    /\ yahoo_request_timestamps' = Append(ts, ynow)
    /\ ynow' = ynow + call_ticks
    /\ \E out \in UpstreamOutcomes :
        /\ outs' = [outs EXCEPT ![t] = Append(@, out)]
        /\ CASE out = "ok" ->
                 /\ rpc' = [rpc EXCEPT ![t] = "succeeded"]
                 /\ ret' = [ret EXCEPT ![t] = Some(Len(outs[t]) + 1)]
                 /\ UNCHANGED <<wake, delays>>
             [] out = "429" ->
                 \E jitter \in Jitters :
                     /\ rpc' = [rpc EXCEPT ![t] = "backoff"]
                     /\ wake' = [wake EXCEPT ![t] = ynow' + BackoffDelay(attempt[t], jitter)]
                     /\ delays' = [delays EXCEPT ![t] =
                            Append(@, [attempt |-> attempt[t], base |-> BackoffBase(attempt[t]),
                                       delay |-> BackoffDelay(attempt[t], jitter)])]
                     /\ ret' = ret
             [] OTHER ->
                 IF RetriesRemain(attempt[t])
                 THEN /\ rpc' = [rpc EXCEPT ![t] = "backoff"]
                      /\ wake' = [wake EXCEPT ![t] = ynow' + ErrorRetryDelay * TicksPerSecond]
                      /\ UNCHANGED <<delays, ret>>
                 ELSE /\ rpc' = [rpc EXCEPT ![t] = "raised"]
                      /\ UNCHANGED <<wake, delays, ret>>
    /\ UNCHANGED <<attempt, call_ticks>>

\* The top of the loop body: check_rate_limit, then the request at once or
\* the sleep until the window has room.
Attempt(t) ==
    /\ rpc[t] = "attempting"
    /\ LET chk == CheckRateLimit(yahoo_request_timestamps, ynow)
       IN  /\ ylast' = RateChecked(t, yahoo_request_timestamps, chk)
           /\ IF chk.can_proceed
              THEN Invoke(t, chk.timestamps)
              ELSE /\ yahoo_request_timestamps' = chk.timestamps
                   /\ rpc' = [rpc EXCEPT ![t] = "rate_wait"]
                   /\ wake' = [wake EXCEPT ![t] = ynow + chk.wait_time + WaitBuffer]
                   /\ UNCHANGED <<ynow, attempt, outs, delays, ret, call_ticks>>
    /\ UNCHANGED nonRetryVars

\* After the rate-limit sleep: the request, with no second check.
AfterWait(t) ==
    /\ rpc[t] = "rate_wait"
    /\ ynow >= wake[t]
    /\ Invoke(t, yahoo_request_timestamps)
    /\ ylast' = [ev |-> "after_wait", task |-> t]
    /\ UNCHANGED nonRetryVars

\* After the sleep of the except clause: the next iteration, or the raise
\* that follows the loop.
Resume(t) ==
    /\ rpc[t] = "backoff"
    /\ ynow >= wake[t]
    /\ attempt' = [attempt EXCEPT ![t] = @ + 1]
    /\ rpc' = [rpc EXCEPT ![t] = IF InRange(attempt[t] + 1) THEN "attempting" ELSE "exhausted"]
    /\ ylast' = Quiet
    /\ UNCHANGED <<yahoo_request_timestamps, ynow, wake, outs, delays, ret, call_ticks>>
    /\ UNCHANGED nonRetryVars

Sleeping == {t \in DOMAIN rpc : rpc[t] \in {"rate_wait", "backoff"}}

\* The timers the event loop waits on: the pending sleeps and, while a
\* request is being handled, the timeout of asyncio.wait_for.
Timers == {wake[t] : t \in Sleeping} \cup (IF client = "pending" THEN {deadline} ELSE {})

\* Time passes until the earliest timer is due; the event loop waits on its
\* timers only when no coroutine is ready to run.
Advance ==
    /\ Sleeping # {}
    /\ \A t \in DOMAIN rpc : rpc[t] # "attempting"
    /\ \A due \in Timers : ynow < due
    /\ \E due \in Timers :
        /\ \A other \in Timers : due <= other
        /\ ynow' = due
    /\ ylast' = Quiet
    /\ UNCHANGED <<yahoo_request_timestamps, rpc, attempt, wake, outs, delays, ret, call_ticks>>
    /\ UNCHANGED nonRetryVars

\* The lists yahoo_request_timestamps can hold when a call starts: up to
\* MaxPrior earlier requests in append order, the older ones a full window
\* ago, the others just before.
PriorLists ==
    UNION {{[i \in 1 .. (old + new) |-> IF i <= old THEN 0 - WindowTicks ELSE 0] :
                new \in 0 .. (MaxPrior - old)} : old \in 0 .. MaxPrior}

\* The lists it can hold when a request arrives under the middleware: up to
\* MaxPrior requests recorded three quarters of a window ago.
RecentLists ==
    {[i \in 1 .. n |-> 0 - (3 * WindowTicks) \div 4] : n \in 0 .. MaxPrior}

\* The coroutines in ts enter perform_yahoo_request.
Entered(ts) ==
    /\ ynow = 0
    /\ rpc = [t \in ts |-> "attempting"]
    /\ attempt = [t \in ts |-> 0]
    /\ wake = [t \in ts |-> 0]
    /\ outs = [t \in ts |-> <<>>]
    /\ delays = [t \in ts |-> <<>>]
    /\ ret = [t \in ts |-> None]
    /\ ylast = Quiet

\* The calls of the coroutines in ts start, on an event loop that has served
\* earlier requests.
CallsStart(ts) ==
    /\ yahoo_request_timestamps \in PriorLists
    /\ Entered(ts)

\* app.add_middleware(TimeoutMiddleware, timeout=30), in seconds.
RequestTimeout == 30

\* The seconds a slow upstream call takes.
SlowCallSeconds == 31

\* The synchronous func answers at once, or keeps the thread for longer than
\* the request timeout.
CallDurations == {0, SlowCallSeconds * TicksPerSecond}

RetryInit == CallsStart(Tasks) /\ call_ticks \in CallDurations

\* No request is being handled under the middleware.
NoAnswer == [at |-> 0, status_code |-> 0, fields |-> {}]

TimeoutIdle ==
    /\ deadline = 0
    /\ client = "none"
    /\ responded = NoAnswer

\* dispatch: asyncio.wait_for(call_next(request), timeout=self.timeout) arms
\* the timer and starts the handler.
Dispatch ==
    /\ deadline = RequestTimeout * TicksPerSecond
    /\ client = "pending"
    /\ responded = NoAnswer

TimeoutResponse(at) ==
    [at |-> at, status_code |-> 504, fields |-> {"detail", "error_code", "path"}]

ErrorResponse(at) ==
    [at |-> at, status_code |-> 500, fields |-> {"detail", "error_code", "path"}]

HandlerResponse(at) == [at |-> at, status_code |-> 200, fields |-> {"body"}]

\* The timer of wait_for is due and the handler is suspended in a sleep: the
\* sleep is cancelled and dispatch answers from except asyncio.TimeoutError.
\* The callback of the timer runs only when the event loop gets control.
TimeoutFires(t) ==
    /\ client = "pending"
    /\ ynow >= deadline
    /\ t \in Sleeping
    /\ rpc' = [rpc EXCEPT ![t] = "cancelled"]
    /\ client' = "answered"
    /\ responded' = TimeoutResponse(ynow)
    /\ ylast' = Quiet
    /\ UNCHANGED <<yahoo_request_timestamps, ynow, attempt, wake, outs, delays, ret, call_ticks,
                   deadline>>
    /\ UNCHANGED nonTimeoutVars

\* The handler ended before the callback of the timer ran: wait_for hands
\* its result to dispatch, or its exception to except Exception.
Respond(t) ==
    /\ client = "pending"
    /\ rpc[t] \in {"succeeded", "raised", "exhausted"}
    /\ client' = "answered"
    /\ responded' = IF rpc[t] = "succeeded" THEN HandlerResponse(ynow) ELSE ErrorResponse(ynow)
    /\ ylast' = Quiet
    /\ UNCHANGED <<yahoo_request_timestamps, ynow, rpc, attempt, wake, outs, delays, ret,
                   call_ticks, deadline>>
    /\ UNCHANGED nonTimeoutVars

\* ------------------------------------------------ batch_process (utils/fmp_client.py)

\* The longest items list.
MaxItems == 3

\* The largest batch_size.
MaxBatch == 2

ItemKinds == {"A", "B"}

\* The items lists: any items, repeated or not, up to MaxItems of them.
ItemLists == UNION {[1 .. n -> ItemKinds] : n \in 0 .. MaxItems}

\* The batch_size arguments: any integer up to MaxBatch, zero and a negative
\* (range accepts both as a step).
BatchSizes == (0 - 1) .. MaxBatch

\* What process_func returns for an item, when it returns.
process_func(item) == [of |-> item]

\* How one process_func call ends.
CallOutcomes == {"returned", "raised"}

\* The positions (from 1) of batch = items[lo : lo + size], in order.
Batch(its, lo, size) ==
    [n \in 1 .. (Min(lo + size, Len(its)) - lo) |-> lo + n]

Range(f) == {f[x] : x \in DOMAIN f}

\* A gather that hands its results back in the order the calls ended.
Gathered_AsCompleted(its, batch, ended) ==
    LET order == SelectSeq(ended, LAMBDA k : k \in Range(batch))
    IN  [n \in 1 .. Len(order) |-> process_func(its[order[n]])]

\* asyncio.gather's result: the calls' results in the order of its
\* arguments, whatever the order the calls ended in.
Gathered(its, batch, ended) ==
    [n \in 1 .. Len(batch) |-> process_func(its[batch[n]])]

\* A gather that resumes its awaiter as soon as one call has returned.
GatherDone_First(batch, cs) == \E n \in 1 .. Len(batch) : cs[batch[n]] = "returned"

\* asyncio.gather resumes its awaiter with the results when every call has
\* returned.
GatherDone(batch, cs) == \A n \in 1 .. Len(batch) : cs[batch[n]] = "returned"

\* A gather called with return_exceptions=True: no call's exception is raised.
GatherRaises_ReturnExceptions(out) == FALSE

\* asyncio.gather without return_exceptions: the first exception of a call is
\* raised to its awaiter at once.
GatherRaises(out) == out = "raised"

\* No batch_process call is in progress.
BatchIdle ==
    /\ items = <<>>
    /\ batch_size = 1
    /\ loop_i = 0
    /\ results = <<>>
    /\ bpc = "returned"
    /\ calls = <<>>
    /\ completed = <<>>

\* A batch_process call starts.
BatchInit ==
    /\ items \in ItemLists
    /\ batch_size \in BatchSizes
    /\ loop_i = 0
    /\ results = <<>>
    /\ bpc = "loop"
    /\ calls = [k \in 1 .. Len(items) |-> "unissued"]
    /\ completed = <<>>

\* for i in range(0, len(items), batch_size): the next group is issued to
\* asyncio.gather, or the loop ends and results is returned.  range raises
\* ValueError for a step of zero and is empty for a negative one.
BatchLoop ==
    /\ bpc = "loop"
    /\ IF batch_size = 0
       THEN /\ bpc' = "raised"
            /\ calls' = calls
       ELSE IF batch_size > 0 /\ loop_i < Len(items)
            THEN /\ bpc' = "gather"
                 /\ calls' = [k \in 1 .. Len(items) |->
                                 IF k \in Range(Batch(items, loop_i, batch_size))
                                 THEN "running" ELSE calls[k]]
            ELSE /\ bpc' = "returned"
                 /\ calls' = calls
    /\ UNCHANGED <<items, batch_size, loop_i, results, completed>>
    /\ UNCHANGED nonBatchVars

\* One process_func call ends.  A call that raises makes the gather raise at
\* once, and batch_process with it; the last call of the group to return
\* hands the group's results to batch_process, which extends results and
\* sleeps when items remain.
CallEnds(k) ==
    /\ k \in DOMAIN calls
    /\ calls[k] = "running"
    /\ \E out \in CallOutcomes :
        LET batch == Batch(items, loop_i, batch_size)
            cs == [calls EXCEPT ![k] = out]
            ended == Append(completed, k)
        IN  /\ calls' = cs
            /\ completed' = ended
            /\ IF bpc = "gather" /\ GatherRaises(out)
               THEN /\ bpc' = "raised"
                    /\ UNCHANGED <<loop_i, results>>
               ELSE IF bpc = "gather" /\ GatherDone(batch, cs)
                    THEN /\ results' = results \o Gathered(items, batch, ended)
                         /\ IF loop_i + batch_size < Len(items)
                            THEN bpc' = "sleep" /\ loop_i' = loop_i
                            ELSE bpc' = "loop" /\ loop_i' = loop_i + batch_size
                    ELSE UNCHANGED <<bpc, loop_i, results>>
    /\ UNCHANGED <<items, batch_size>>
    /\ UNCHANGED nonBatchVars

\* await asyncio.sleep(2) between groups ends.
BatchWake ==
    /\ bpc = "sleep"
    /\ bpc' = "loop"
    /\ loop_i' = loop_i + batch_size
    /\ UNCHANGED <<items, batch_size, results, calls, completed>>
    /\ UNCHANGED nonBatchVars

BatchNext ==
    \/ BatchLoop
    \/ \E k \in 1 .. MaxItems : CallEnds(k)
    \/ BatchWake

\* --------------------------------------------- fetch_stock_data (utils/fmp_client.py)

\* timedelta(minutes=15): how long an api_cache entry is used.
ApiCacheMinutes == 15

\* fetch_stock_data's clock advances in steps of ApiCacheMinutes / FetchTicksPerTTL.
FetchTicksPerTTL == 3

FetchTickLen == ApiCacheMinutes \div FetchTicksPerTTL

MaxFetchNow == ApiCacheMinutes + FetchTickLen

Symbols == {"AAPL", "RELIANCE.NS"}

\* How the FMP request ends: client.get raises; a status other than 200; 200
\* with a body response.json() cannot read; 200 with an empty list; 200 with
\* a quote whose fields float() or int() cannot convert; 200 with a quote.
PrimaryOutcomes == {"raises", "not_200", "bad_json", "empty", "bad_quote", "ok"}

\* The primary outcomes that leave the try block's if statements without a
\* return and without an exception.
PrimaryFallsThrough == {"not_200", "empty"}

\* How yf.Ticker(symbol).info ends.
SecondaryOutcomes == {"raises", "ok"}

\* The result dictionary built from a provider's answer.
Quote(sym, provider) == [kind |-> "result", symbol |-> sym, provider |-> provider]

\* return {}
EmptyDict == [kind |-> "empty"]

NoReturn == [kind |-> "none"]

\* cache_key in api_cache and datetime.now() - cache_time < timedelta(minutes=15)
ApiCacheFresh(cache, sym, t) ==
    cache[sym] # None /\ t - cache[sym][1].cache_time < ApiCacheMinutes

FetchIdle ==
    /\ api_cache = [sym \in Symbols |-> None]
    /\ fnow = 0
    /\ fpc = "idle"
    /\ symbol = "AAPL"
    /\ upstream = <<>>
    /\ fret = NoReturn

\* fetch_stock_data is called: the api_cache entry when it is fresh, the FMP
\* request otherwise.
FetchStockData(sym) ==
    /\ fpc \in {"idle", "returned"}
    /\ symbol' = sym
    /\ upstream' = <<>>
    /\ IF ApiCacheFresh(api_cache, sym, fnow)
       THEN /\ fpc' = "returned"
            /\ fret' = api_cache[sym][1].cache_data
       ELSE /\ fpc' = "primary"
            /\ fret' = NoReturn
    /\ UNCHANGED <<api_cache, fnow>>
    /\ UNCHANGED nonFetchVars

\* The result is cached and returned.
FetchReturns(result) ==
    /\ api_cache' = [api_cache EXCEPT ![symbol] = Some([cache_time |-> fnow, cache_data |-> result])]
    /\ fret' = result
    /\ fpc' = "returned"

\* except Exception: the error is logged and {} returned.
FetchExcept ==
    /\ api_cache' = api_cache
    /\ fret' = EmptyDict
    /\ fpc' = "returned"

\* The FMP request ends.
PrimaryEnds ==
    /\ fpc = "primary"
    /\ \E out \in PrimaryOutcomes :
        /\ upstream' = Append(upstream, [provider |-> "fmp", out |-> out])
        /\ CASE out = "ok" -> FetchReturns(Quote(symbol, "fmp"))
             [] out \in PrimaryFallsThrough ->
                    /\ fpc' = "secondary"
                    /\ UNCHANGED <<api_cache, fret>>
             [] OTHER -> FetchExcept
    /\ UNCHANGED <<fnow, symbol>>
    /\ UNCHANGED nonFetchVars

\* The yfinance call ends.
SecondaryEnds ==
    /\ fpc = "secondary"
    /\ \E out \in SecondaryOutcomes :
        /\ upstream' = Append(upstream, [provider |-> "yfinance", out |-> out])
        /\ IF out = "ok" THEN FetchReturns(Quote(symbol, "yfinance")) ELSE FetchExcept
    /\ UNCHANGED <<fnow, symbol>>
    /\ UNCHANGED nonFetchVars

FetchTick ==
    /\ fnow + FetchTickLen <= MaxFetchNow
    /\ fnow' = fnow + FetchTickLen
    /\ UNCHANGED <<api_cache, fpc, symbol, upstream, fret>>
    /\ UNCHANGED nonFetchVars

FetchNext ==
    \/ \E sym \in Symbols : FetchStockData(sym)
    \/ PrimaryEnds
    \/ SecondaryEnds
    \/ FetchTick

\* ------------------------------------------- get_latest_news (api/routes/news.py)

\* cache_key = f"news_latest_{topics}_{market}_{limit}", for the one request
\* the handlers serve.
cache_key == "k1"

\* set_cached_data(cache_key, response, 1800)
NewsTtl == 1800

\* What fetch_news hands back: the articles, or [] when the API fails.
NewsResults == {<<>>} \cup {<<v>> : v \in Values}

\* The response built from news_data.
NewsResponse(news_data) ==
    [status |-> "ok", totalResults |-> Len(news_data), articles |-> news_data]

\* A handler that fetches whatever the cache answered.
IsHit_Never(cached_data) == FALSE

\* if cached_data: a value was returned (no response is an empty dict).
IsHit(cached_data) == cached_data # None

RouteIdle ==
    /\ route_pc = [p \in Procs |-> "idle"]
    /\ trace = [p \in Procs |-> <<>>]
    /\ response = [p \in Procs |-> None]

Traced(p, entry) == trace' = [trace EXCEPT ![p] = Append(@, entry)]

\* A request reaches get_latest_news.
RouteRequest(p) ==
    /\ route_pc[p] \in {"idle", "returned"}
    /\ route_pc' = [route_pc EXCEPT ![p] = "get"]
    /\ trace' = [trace EXCEPT ![p] = <<>>]
    /\ response' = [response EXCEPT ![p] = None]
    /\ last' = Quiet
    /\ UNCHANGED <<store, now, health, alwaysDown, written_ttl, pc, call, prev_get>>
    /\ UNCHANGED nonRouteVars

\* cached_data = await get_cached_data(cache_key), and the return on a hit.
RouteGet(p) ==
    /\ route_pc[p] = "get"
    /\ GetSelect(p, cache_key)
    /\ IF last'.ev = "get_expired"
       THEN /\ route_pc' = [route_pc EXCEPT ![p] = "get_delete"]
            /\ UNCHANGED <<trace, response>>
       ELSE /\ Traced(p, [op |-> "get", key |-> cache_key, ret |-> last'.ret])
            /\ IF IsHit(last'.ret)
               THEN /\ route_pc' = [route_pc EXCEPT ![p] = "returned"]
                    /\ response' = [response EXCEPT ![p] = last'.ret]
               ELSE /\ route_pc' = [route_pc EXCEPT ![p] = "fetch"]
                    /\ response' = response
    /\ UNCHANGED nonRouteVars

\* get_cached_data deletes the expired row and returns None.
RouteGetDelete(p) ==
    /\ route_pc[p] = "get_delete"
    /\ GetDelete(p)
    /\ Traced(p, [op |-> "get", key |-> cache_key, ret |-> None])
    /\ route_pc' = [route_pc EXCEPT ![p] = "fetch"]
    /\ response' = response
    /\ UNCHANGED nonRouteVars

\* news_data = await fetch_news(...), and the response built from it.
RouteFetch(p) ==
    /\ route_pc[p] = "fetch"
    /\ \E news_data \in NewsResults :
        /\ Traced(p, [op |-> "fetch", ret |-> news_data])
        /\ response' = [response EXCEPT ![p] = Some(NewsResponse(news_data))]
    /\ route_pc' = [route_pc EXCEPT ![p] = "set"]
    /\ last' = Quiet
    /\ UNCHANGED <<store, now, health, alwaysDown, written_ttl, pc, call, prev_get>>
    /\ UNCHANGED nonRouteVars

\* await set_cached_data(cache_key, response, 1800), up to its delete.
RouteSet(p) ==
    /\ route_pc[p] = "set"
    /\ SetDelete(p, cache_key, response[p][1], Some(NewsTtl))
    /\ IF last'.ev = "set"
       THEN /\ Traced(p, [op |-> "set", key |-> cache_key, data |-> response[p][1],
                          ret |-> last'.ret])
            /\ route_pc' = [route_pc EXCEPT ![p] = "returned"]
       ELSE /\ route_pc' = [route_pc EXCEPT ![p] = "set_insert"]
            /\ trace' = trace
    /\ response' = response
    /\ UNCHANGED nonRouteVars

\* set_cached_data's insert; the response is returned whatever it answers.
RouteSetInsert(p) ==
    /\ route_pc[p] = "set_insert"
    /\ SetInsertRow(p)
    /\ Traced(p, [op |-> "set", key |-> last'.key, data |-> last'.data, ret |-> last'.ret])
    /\ route_pc' = [route_pc EXCEPT ![p] = "returned"]
    /\ response' = response
    /\ UNCHANGED nonRouteVars

RouteNext ==
    \/ \E p \in Procs : RouteRequest(p)
    \/ \E p \in Procs : RouteGet(p)
    \/ \E p \in Procs : RouteGetDelete(p)
    \/ \E p \in Procs : RouteFetch(p)
    \/ \E p \in Procs : RouteSet(p)
    \/ \E p \in Procs : RouteSetInsert(p)
    \/ Tick
    \/ StoreDown
    \/ StoreUp

CacheQuiet ==
    /\ store = EmptyBag
    /\ now = 0
    /\ health = "up"
    /\ alwaysDown = FALSE
    /\ written_ttl = [k \in Keys |-> None]
    /\ pc = [p \in Procs |-> "idle"]
    /\ call = [p \in Procs |-> NoCall]
    /\ last = Quiet
    /\ prev_get = NoGet

RetryNext ==
    \/ \E t \in Tasks : Attempt(t)
    \/ \E t \in Tasks : AfterWait(t)
    \/ \E t \in Tasks : Resume(t)
    \/ Advance

\* ---------------------------- fetch_indian_market_overview (utils/fmp_client.py)

\* indian_indices, by symbol, in declaration order.
indian_indices == <<"^NSEI", "^NSEBANK", "^CNXIT", "^NSMIDCP", "^INDIAVIX", "^BSESN">>

NoMarketData == [kind |-> "unset"]

\* fetch_indian_market_overview: its body defines indian_indices and
\* process_index and ends there.  The try block that calls batch_process and
\* fetch_market_breadth is indented under process_index, after the raise that
\* ends it, so no process_index call is issued and the function returns None
\* by falling off its end.
FetchIndianMarketOverview == [kind |-> "None", issued |-> <<>>]

\* if market_data: a non-empty dictionary.
IsTruthy(data) == data.kind = "dict"

\* scripts/update_market_data.py is not running.
OverviewIdle ==
    /\ opc = "idle"
    /\ market_data = NoMarketData
    /\ overview_cached = FALSE

\* main: await update_market_overview() is reached.
OverviewStart ==
    /\ opc = "start"
    /\ market_data = NoMarketData
    /\ overview_cached = FALSE

\* market_data = await fetch_indian_market_overview()
OverviewFetch ==
    /\ opc = "start"
    /\ market_data' = FetchIndianMarketOverview
    /\ opc' = "fetched"
    /\ overview_cached' = overview_cached
    /\ UNCHANGED nonOverviewVars

\* if market_data: the data is cached and the market_overview table updated;
\* else: the warning "Failed to fetch market overview data".
OverviewBranch ==
    /\ opc = "fetched"
    /\ overview_cached' = IsTruthy(market_data)
    /\ opc' = "done"
    /\ market_data' = market_data
    /\ UNCHANGED nonOverviewVars

\* main: await update_stock_data(), its fetch_stock_data calls.
UpdateStockData(sym) ==
    /\ opc = "done"
    /\ FetchStockData(sym)

\* One run of the script's main.
OverviewNext ==
    \/ OverviewFetch
    \/ OverviewBranch
    \/ \E sym \in Symbols : UpdateStockData(sym)
    \/ PrimaryEnds
    \/ SecondaryEnds
    \/ FetchTick

OverviewInit ==
    /\ CacheQuiet /\ RetryIdle /\ BatchIdle /\ FetchIdle /\ RouteIdle /\ TimeoutIdle
    /\ OverviewStart

OverviewSpec == OverviewInit /\ [][OverviewNext]_vars

RetrySpecInit == CacheQuiet /\ RetryInit /\ BatchIdle /\ FetchIdle /\ RouteIdle /\ OverviewIdle /\ TimeoutIdle

\* The event loop runs every ready coroutine and its clock advances.
RetrySpec == RetrySpecInit /\ [][RetryNext]_vars /\ WF_vars(RetryNext)

RateInit ==
    /\ CacheQuiet /\ BatchIdle /\ FetchIdle /\ RouteIdle /\ OverviewIdle /\ TimeoutIdle
    /\ CallsStart(Callers) /\ call_ticks = 0

BatchSpecInit == CacheQuiet /\ RetryIdle /\ BatchInit /\ FetchIdle /\ RouteIdle /\ OverviewIdle /\ TimeoutIdle

FetchSpecInit == CacheQuiet /\ RetryIdle /\ BatchIdle /\ FetchIdle /\ RouteIdle /\ OverviewIdle /\ TimeoutIdle

\* fetch_stock_data called again and again, its api_cache ageing.
FetchSpec == FetchSpecInit /\ [][FetchNext]_vars

\* One batch_process call, its per-item calls ending in any order.
BatchSpec == BatchSpecInit /\ [][BatchNext]_vars

\* One request under the middleware, its handler inside perform_yahoo_request.
TimeoutNext ==
    \/ \E t \in Tasks : Attempt(t)
    \/ \E t \in Tasks : AfterWait(t)
    \/ \E t \in Tasks : Resume(t)
    \/ Advance
    \/ \E t \in Tasks : TimeoutFires(t)
    \/ \E t \in Tasks : Respond(t)

TimeoutInit ==
    /\ CacheQuiet /\ BatchIdle /\ FetchIdle /\ RouteIdle /\ OverviewIdle
    /\ yahoo_request_timestamps \in RecentLists
    /\ Entered(Tasks)
    /\ call_ticks \in CallDurations
    /\ Dispatch

TimeoutSpec == TimeoutInit /\ [][TimeoutNext]_vars /\ WF_vars(TimeoutNext)

RateNext ==
    \/ \E t \in Callers : Attempt(t)
    \/ \E t \in Callers : AfterWait(t)
    \/ \E t \in Callers : Resume(t)
    \/ Advance

\* Concurrent perform_yahoo_request calls on one event loop.
RateSpec == RateInit /\ [][RateNext]_vars /\ WF_vars(RateNext)

\* Concurrent callers on an event loop that has recorded no request yet, their
\* upstream calls answering at once or slowly.
OverlapInit ==
    /\ CacheQuiet /\ BatchIdle /\ FetchIdle /\ RouteIdle /\ OverviewIdle /\ TimeoutIdle
    /\ yahoo_request_timestamps = <<>>
    /\ Entered(Callers)
    /\ call_ticks \in CallDurations

OverlapSpec == OverlapInit /\ [][RateNext]_vars /\ WF_vars(RateNext)

CacheNext ==
    \/ \E p \in Procs : GetCachedData(p)
    \/ \E p \in Procs : GetDeleteExpired(p)
    \/ \E p \in Procs : SetCachedData(p)
    \/ \E p \in Procs : SetInsert(p)
    \/ \E p \in Procs : DeleteCachedData(p)
    \/ \E p \in Procs : ClearExpiredCache(p)
    \/ Tick
    \/ StoreDown
    \/ StoreUp

Init == CacheInit /\ RetryIdle /\ BatchIdle /\ FetchIdle /\ RouteIdle /\ OverviewIdle /\ TimeoutIdle

Spec == Init /\ [][CacheNext]_vars

\* The rows the table can hold when the cache manager meets it: none, or an
\* entry whose created_at reads in any of the forms.
FoundRows ==
    {EmptyBag} \cup
    {SetToBag({[key |-> k, value |-> v, created_at |-> 0, reads |-> f]}) :
        k \in Keys, v \in Values, f \in Forms}

StampInit ==
    /\ store \in FoundRows
    /\ now = 0
    /\ health \in {"up", "down"}
    /\ alwaysDown = (health = "down")
    /\ written_ttl = [k \in Keys |-> None]
    /\ pc = [p \in Procs |-> "idle"]
    /\ call = [p \in Procs |-> NoCall]
    /\ last = Quiet
    /\ prev_get = NoGet
    /\ RetryIdle /\ BatchIdle /\ FetchIdle /\ RouteIdle /\ OverviewIdle /\ TimeoutIdle

\* The cache manager over a table that holds such a row.
StampSpec == StampInit /\ [][CacheNext]_vars

\* Concurrent get_latest_news requests over the cache, its clock and its store.
RouteSpec == Init /\ [][RouteNext]_vars

\* ------------------------------------------------------------------ claims

RowsOf(k) == Matching(store, {k})

IsCheck == last.ev \in {"get", "get_expired"} /\ last.check.found

\* C1: a get whose select returns the entry of k returns that entry's value
\* when now - created_at < SUPABASE_TTL_CACHE and None when now - created_at
\* >= SUPABASE_TTL_CACHE; while the store answers, a get that finds nothing
\* means the store holds no entry of k.
C1_GetFreshOrAbsent ==
    /\ (last.ev = "get" /\ last.check.found) =>
            /\ last.check.age < SUPABASE_TTL_CACHE
            /\ \E r \in BagToSet(RowsOf(last.key)) :
                   last.ret = Some(r.value) /\ now - r.created_at = last.check.age
    /\ last.ev = "get_expired" => last.check.age >= SUPABASE_TTL_CACHE
    /\ (last.ev = "get" /\ last.expired) => last.ret = None
    /\ (last.ev = "get" /\ ~last.check.found /\ ~last.expired /\ health = "up") =>
            RowsOf(last.key) = EmptyBag

\* A get has returned None for an entry whose age was exactly the TTL.
C1_Witness ==
    /\ last.ev = "get" /\ last.expired /\ last.ret = None
    /\ prev_get.found /\ prev_get.age = SUPABASE_TTL_CACHE /\ ~prev_get.fresh

\* C2: when set_cached_data(k, v2) returns true, also after an earlier
\* set_cached_data(k, v1), the store holds exactly one entry of k and its
\* value is v2; a set that returns false while the store answers was refused
\* for an entry of k another writer holds.
C2_SetKeepsOneLatest ==
    /\ (last.ev = "set" /\ last.ret) =>
            /\ BagCardinality(RowsOf(last.key)) = 1
            /\ \A r \in BagToSet(RowsOf(last.key)) :
                   r.value = last.data /\ r.created_at = now
    /\ (last.ev = "set" /\ ~last.ret /\ health = "up") => RowsOf(last.key) # EmptyBag

\* A set has returned true after deleting the entry an earlier set of
\* another value had left.
C2_Witness == last.ev = "set" /\ last.ret /\ last.replaced

\* C3: while the store has failed on every call, get_cached_data returns
\* None, set_cached_data returns false and delete_cached_data returns false.
C3_FailingStoreIsolated ==
    alwaysDown =>
        /\ last.ev = "get" => last.ret = None
        /\ last.ev = "set" => last.ret = FALSE
        /\ last.ev = "delete" => last.ret = FALSE

\* C4: in every reachable state the store holds at most one entry per key.
C4_OneEntryPerKey == \A k \in Keys : BagCardinality(RowsOf(k)) <= 1

\* Two handlers are both past the delete of set_cached_data for one key, and
\* the entry of that key is already back.
C4_Witness ==
    \E p, q \in Procs :
        /\ p # q
        /\ pc[p] = "set_insert" /\ pc[q] = "set_insert"
        /\ call[p].key = call[q].key
        /\ RowsOf(call[p].key) # EmptyBag

\* C5: an entry written with set_cached_data(k, v, ttl=T) is taken as fresh
\* by get_cached_data exactly while its age is below T.
C5_PerCallTtlExpiry ==
    (IsCheck /\ last.check.wttl # None) =>
        (last.check.fresh <=> last.check.age < last.check.wttl[1])

\* C6: the staleness check of get_cached_data takes an entry as fresh exactly
\* when its age is below SUPABASE_TTL_CACHE, and two checks of entries of the
\* same age agree whatever ttl argument each entry was written with.
C6_TtlArgumentIgnored ==
    IsCheck =>
        /\ last.check.fresh <=> last.check.age < SUPABASE_TTL_CACHE
        /\ (prev_get.found /\ prev_get.age = last.check.age) =>
                prev_get.fresh = last.check.fresh

\* An entry written without ttl and one written with ttl=900 were both
\* returned at the same age, an age of 900 s or more.
C6_Witness ==
    /\ last.ev = "get" /\ last.check.found /\ last.check.wttl = None
    /\ last.check.age >= 900 /\ last.check.fresh
    /\ prev_get.found /\ prev_get.wttl = Some(900)
    /\ prev_get.age = last.check.age /\ prev_get.fresh

\* C7: delete_cached_data(k) returns true whenever the table check passes,
\* and whenever it returns true the store holds no entry of k afterwards.
C7_DeleteLeavesNoEntry ==
    /\ (last.ev = "delete" /\ health = "up") => last.ret
    /\ (last.ev = "delete" /\ last.ret) => RowsOf(last.key) = EmptyBag

\* C8: whenever clear_expired_cache returns a count >= 0, the store holds no
\* entry older than SUPABASE_TTL_CACHE.
C8_SweepLeavesNoStale ==
    (last.ev = "sweep" /\ last.ret >= 0) =>
        \A r \in BagToSet(store) : now - r.created_at <= SUPABASE_TTL_CACHE

Terminal(t) == rpc[t] \in {"succeeded", "exhausted", "raised"}

C9_Safe ==
    \A t \in Tasks :
        /\ Len(outs[t]) <= max_retries
        /\ rpc[t] = "succeeded" =>
                /\ outs[t][Len(outs[t])] = "ok"
                /\ \A i \in 1 .. Len(outs[t]) - 1 : outs[t][i] # "ok"
                /\ ret[t] = Some(Len(outs[t]))
        /\ rpc[t] # "succeeded" => ret[t] = None /\ \A i \in 1 .. Len(outs[t]) : outs[t][i] # "ok"
        /\ (Len(outs[t]) = max_retries /\ \A i \in 1 .. max_retries : outs[t][i] = "429") =>
                rpc[t] \in {"backoff", "exhausted"}
        /\ rpc[t] = "exhausted" => Len(outs[t]) = max_retries

C9_Stable ==
    \A t \in Tasks :
        Terminal(t) => /\ rpc'[t] = rpc[t]
                       /\ outs'[t] = outs[t]
                       /\ ret'[t] = ret[t]
                       /\ yahoo_request_timestamps' = yahoo_request_timestamps

\* C9: one perform_yahoo_request call invokes the upstream at most
\* max_retries times; it returns the result of the first invocation that
\* succeeds, and ends exhausted when all max_retries invocations were rate
\* limited; once it has returned or raised it invokes nothing more; and it
\* always comes to return or raise.
C9_BoundedRetries ==
    /\ []C9_Safe
    /\ [][C9_Stable]_vars
    /\ <>(\A t \in Tasks : Terminal(t))

\* A call has ended exhausted after five rate-limited invocations.
C9_Witness ==
    \E t \in Tasks :
        /\ rpc[t] = "exhausted"
        /\ outs[t] = <<"429", "429", "429", "429", "429">>

\* C10: the backoff computed after the rate-limited attempt n is
\* base_delay * 2^n seconds (2, 4, 8, 16, 32) plus a jitter below half a
\* second, so the jitter-free delays of one call never decrease; the loop
\* variable never passes max_retries, and a call that ends exhausted has made
\* exactly max_retries invocations.
C10_BackoffDoubles ==
    \A t \in Tasks :
        /\ \A i \in 1 .. Len(delays[t]) :
            LET d == delays[t][i]
            IN  /\ d.attempt \in 0 .. max_retries - 1
                /\ d.base = base_delay * 2 ^ d.attempt
                /\ d.base = <<2, 4, 8, 16, 32>>[d.attempt + 1]
                /\ d.delay - d.base * TicksPerSecond \in Jitters
                /\ i > 1 => /\ delays[t][i - 1].attempt < d.attempt
                            /\ delays[t][i - 1].base <= d.base
        /\ (rpc[t] = "backoff" /\ outs[t][Len(outs[t])] = "429") =>
                /\ delays[t] # <<>>
                /\ delays[t][Len(delays[t])].attempt = attempt[t]
                /\ wake[t] - delays[t][Len(delays[t])].delay <= ynow
        /\ attempt[t] <= max_retries
        /\ rpc[t] = "exhausted" => attempt[t] = max_retries /\ Len(outs[t]) = max_retries

\* Five consecutive rate-limited attempts were backed off, the last by 32 s
\* and a jitter.
C10_Witness ==
    \E t \in Tasks :
        /\ Len(delays[t]) = max_retries
        /\ delays[t][max_retries].base = 32
        /\ delays[t][max_retries].delay > 32 * TicksPerSecond
        /\ rpc[t] = "exhausted"

\* The requests recorded within the window that ends now.
InWindow == SelectSeq(yahoo_request_timestamps, LAMBDA x : ynow - x < WindowTicks)

\* C11: at every moment, for every interleaving of concurrent
\* perform_yahoo_request callers, at most YAHOO_MAX_REQUESTS upstream
\* invocations are recorded within the YAHOO_RATE_LIMIT_WINDOW that ends then.
C11_WindowBound == Len(InWindow) <= YAHOO_MAX_REQUESTS

\* C12: right after check_rate_limit has executed, yahoo_request_timestamps
\* holds no timestamp aged the window or more at the time of the check,
\* whatever it held before.
C12_PrunedAfterCheck ==
    ylast.ev = "check" =>
        \A i \in 1 .. Len(yahoo_request_timestamps) :
            ylast.at - yahoo_request_timestamps[i] < WindowTicks

\* A check found timestamps aged the window or more beside younger ones.
C12_Witness ==
    /\ ylast.ev = "check"
    /\ \E i \in 1 .. Len(ylast.before) : ylast.at - ylast.before[i] >= WindowTicks
    /\ \E i \in 1 .. Len(ylast.before) : ylast.at - ylast.before[i] < WindowTicks

\* The positions of items, and the results of a call that returns.
Positions == 1 .. Len(items)

Expected == [k \in Positions |-> process_func(items[k])]

NoCallRaised == \A k \in Positions : calls[k] # "raised"

\* C13 as stated, for any batch_size: with a process_func that does not
\* raise, batch_process does not raise, and it returns one result per item,
\* [f(i1), ..., f(iN)] in input order.
C13_AnyBatchSize ==
    /\ (bpc = "raised") => ~NoCallRaised
    /\ (bpc = "returned") =>
            /\ results = Expected
            /\ \A k \in Positions : calls[k] = "returned"

\* C13, amended: for any batch_size >= 1, any list length and any order in
\* which the calls of a group end, batch_process raises only when a call
\* raised, and it returns [f(i1), ..., f(iN)] in input order after exactly
\* one returned call per item.
C13_OrderPreserved == (batch_size >= 1) => C13_AnyBatchSize

\* batch_process has returned a list of two different items whose calls
\* ended in the opposite order, within one group.
C13_Witness ==
    /\ bpc = "returned" /\ batch_size >= 2
    /\ \E m, n \in 1 .. Len(completed) :
        /\ m < n /\ completed[m] > completed[n]
        /\ items[completed[m]] # items[completed[n]]

\* The group of a position: the positions before it that start a group.
GroupOf(k) == (k - 1) \div batch_size

\* C14: no call of a group is issued before every call of the groups before
\* it has ended, and at most batch_size calls are outstanding.
C14_GroupsInSequence ==
    (batch_size >= 1) =>
        /\ \A j, k \in Positions :
            (GroupOf(j) < GroupOf(k) /\ calls[k] # "unissued") =>
                calls[j] \in {"returned", "raised"}
        /\ Cardinality({k \in Positions : calls[k] = "running"}) <= batch_size

\* A later group is running, after an earlier group of batch_size calls.
C14_Witness ==
    /\ batch_size >= 1
    /\ \E j, k \in Positions :
        /\ GroupOf(j) < GroupOf(k)
        /\ calls[k] = "running" /\ calls[j] = "returned"
    /\ Cardinality({k \in Positions : calls[k] = "running"}) = batch_size

FetchEnded == fpc \in {"returned", "raised"} /\ upstream # <<>>

Called(provider) == \E n \in 1 .. Len(upstream) : upstream[n].provider = provider

Succeeded(provider) ==
    \E n \in 1 .. Len(upstream) : upstream[n].provider = provider /\ upstream[n].out = "ok"

\* C15: whenever fetch_stock_data has ended and its primary call raised or
\* returned an unusable payload, the secondary was called.
C15_SecondaryAfterPrimaryFails ==
    (FetchEnded /\ Called("fmp") /\ ~Succeeded("fmp")) => Called("yfinance")

\* C16: fetch_stock_data returns the primary's result when the primary
\* succeeds, else the secondary's when the secondary succeeds; when both
\* fail it raises to its caller and returns no value.
C16_FirstSuccessOrError ==
    FetchEnded =>
        /\ Succeeded("fmp") => fpc = "returned" /\ fret = Quote(symbol, "fmp")
        /\ (~Succeeded("fmp") /\ Succeeded("yfinance")) =>
                fpc = "returned" /\ fret = Quote(symbol, "yfinance")
        /\ (~Succeeded("fmp") /\ ~Succeeded("yfinance")) => fpc = "raised"

\* C17: a get_latest_news request that has returned either hit the cache,
\* made no other call and returns the cached value; or missed, invoked
\* fetch_news exactly once, then called set_cached_data once with the
\* response built from the fetched news under the key of its get, and
\* returns that response.
C17_CacheAside ==
    \A p \in Procs :
        route_pc[p] = "returned" =>
            LET tr == trace[p]
            IN  /\ Len(tr) >= 1
                /\ tr[1].op = "get"
                /\ IF tr[1].ret # None
                   THEN /\ Len(tr) = 1
                        /\ response[p] = tr[1].ret
                   ELSE /\ Len(tr) = 3
                        /\ tr[2].op = "fetch"
                        /\ tr[3].op = "set"
                        /\ tr[3].key = tr[1].key
                        /\ tr[3].data = NewsResponse(tr[2].ret)
                        /\ response[p] = Some(tr[3].data)

\* One request has returned on a hit while another returned after a miss,
\* a fetch and a set that stored its response.
C17_Witness ==
    \E p, q \in Procs :
        /\ route_pc[p] = "returned" /\ Len(trace[p]) = 1 /\ trace[p][1].ret # None
        /\ route_pc[q] = "returned" /\ Len(trace[q]) = 3 /\ trace[q][3].ret

\* C18: a request is never pending past the timeout of the middleware, also
\* while perform_yahoo_request is retrying: once the timeout has elapsed the
\* upstream call in flight and the pending sleep are abandoned, and the
\* client is answered at the timeout with the 504 response carrying detail,
\* error_code and path; only a handler that ended by then is answered
\* otherwise.
C18_TimeoutAbandons ==
    /\ client = "pending" => ynow <= deadline
    /\ (client = "answered" /\ responded.status_code # 504) => responded.at <= deadline
    /\ (client = "answered" /\ responded.status_code = 504) =>
            /\ responded = TimeoutResponse(deadline)
            /\ \E t \in Tasks : rpc[t] = "cancelled"

\* C19: when get_cached_data(k) has found an entry aged the TTL or more, it
\* returns None whether or not its delete succeeded, no failure of the delete
\* reaching the caller; when the store accepted the delete, no entry of k is
\* in the store as get returns.
C19_ExpiredEntryDeleted ==
    (last.ev = "get" /\ last.expired) =>
        /\ last.ret = None
        /\ last.accepted => RowsOf(last.key) = EmptyBag

\* A get has returned after the store accepted the delete of the expired
\* entry it found.
C19_Witness ==
    /\ last.ev = "get"
    /\ last.expired
    /\ last.accepted
    /\ health = "up"

\* C20: a get that read an entry whose created_at is empty or does not
\* parse never returns the stored value; it returns None as for an expired
\* entry and deletes the entry as it does an expired one, so that no entry of
\* the key is left when the store accepted the delete.
C20_UnreadableIsExpired ==
    (last.ev = "get" /\ last.reads \in {"unparseable", "empty"}) =>
        /\ last.ret = None
        /\ last.expired
        /\ last.accepted => RowsOf(last.key) = EmptyBag

\* A get_cached_data(k) that runs right after the delete of another request's
\* set_cached_data(k, v2) removed a fresh entry, before the insert, the store
\* answering.
GetInsideSet ==
    /\ last.ev = "set_deleted"
    /\ last.fresh
    /\ health = "up"
    /\ last'.ev = "get"
    /\ last'.key = last.key

\* C21: a get_cached_data(k) interleaved with another request's
\* set_cached_data(k, v2) over a fresh entry (k, v1) does not return None.
C21_SetIsOneOperation == [][GetInsideSet => last'.ret # None]_vars

\* C28: a set_cached_data(k, v2) that returns False has removed no entry of
\* k: what was stored for k before the call was left as it was.
C28_FailedSetKeepsOld ==
    (last.ev = "set" /\ ~last.ret) => ~last.removed

\* C22: a request whose fetch_news failed, handing back its empty failure
\* value, writes no entry: its trace holds no set_cached_data that stored one.
C22_NoWriteOnFailedFetch ==
    \A p \in Procs :
        \A i \in 1 .. Len(trace[p]) :
            (trace[p][i].op = "fetch" /\ trace[p][i].ret = <<>>) =>
                \A j \in 1 .. Len(trace[p]) :
                    trace[p][j].op = "set" => ~trace[p][j].ret

\* C23: while the last attempt of a perform_yahoo_request call has failed
\* with an error that is no rate limit, the call is retrying when attempts
\* remain, its sleep being ErrorRetryDelay from the moment the attempt
\* failed, and it has raised that error when the attempt was the final one.
C23_FlatRetryThenPropagate ==
    \A t \in Tasks :
        LET n == Len(outs[t])
        IN  (n > 0 /\ outs[t][n] = "error") =>
                IF n < max_retries
                THEN /\ rpc[t] \in {"backoff", "attempting", "rate_wait"}
                     /\ rpc[t] = "backoff" =>
                            /\ attempt[t] = n - 1
                            /\ wake[t] - ynow <= ErrorRetryDelay * TicksPerSecond
                            /\ ylast.ev \in {"check", "after_wait"} =>
                                    wake[t] - ynow = ErrorRetryDelay * TicksPerSecond
                ELSE rpc[t] = "raised"

\* A call has raised the error of its final attempt after an earlier attempt
\* that failed with such an error was retried.
C23_Witness ==
    \E t \in Tasks :
        /\ rpc[t] = "raised"
        /\ Len(outs[t]) = max_retries
        /\ outs[t][1] = "error"
        /\ outs[t][max_retries] = "error"

\* C29: once the max_retries-th attempt of a perform_yahoo_request call has
\* failed, with a rate-limit error or any other, the call has raised: it is
\* in no sleep.
C29_NoSleepAfterFinalAttempt ==
    \A t \in Tasks :
        (Len(outs[t]) = max_retries /\ outs[t][max_retries] # "ok") =>
            rpc[t] \in {"raised", "exhausted"}

\* C25: once a per-item call of a group has raised, batch_process has raised
\* to its caller, so it returns no result, partial or not, and no call of a
\* later group is ever issued.
C25_GroupFailsFast ==
    \A k \in Positions :
        calls[k] = "raised" =>
            /\ bpc = "raised"
            /\ \A j \in Positions : GroupOf(j) > GroupOf(k) => calls[j] = "unissued"

\* A call of the second group raised after the first group had returned, and
\* a third group was left unissued.
C25_Witness ==
    /\ batch_size >= 1
    /\ bpc = "raised"
    /\ results # <<>>
    /\ \E k, j \in Positions :
        /\ calls[k] = "raised"
        /\ GroupOf(j) > GroupOf(k)
        /\ calls[j] = "unissued"

\* C26: an upstream call in flight suspends only its own task, so the event
\* loop resumes every other task when its sleep ends: no task is still
\* asleep after the time it was to wake at.
C26_CallSuspendsOnlyCaller ==
    \A t \in Sleeping : ynow <= wake[t]

\* The outcomes of func that are permanent upstream errors: an exception for
\* a 4xx other than 429, or for a malformed response, holds neither "429" nor
\* "Too Many Requests" and is one of the other exceptions.
IsPermanent(out) == out = "error"

\* C24: a permanent upstream error is not retried: no invocation of func
\* follows one that ended with such an error in the same
\* perform_yahoo_request call.
C24_PermanentNotRetried ==
    \A t \in Tasks :
        \A i \in 1 .. Len(outs[t]) : IsPermanent(outs[t][i]) => i = Len(outs[t])

\* C27: once fetch_indian_market_overview has ended, it has either raised or
\* returned a dictionary whose index results are those of process_index for
\* the six indices in declaration order, every one of them issued through
\* batch_process.
C27_OverviewResultOrError ==
    opc \in {"fetched", "done"} =>
        \/ market_data.kind = "raised"
        \/ /\ market_data.kind = "dict"
           /\ market_data.issued = indian_indices

\* get_cached_data's verdict on a row it read at t: the row is reported
\* absent as stale (and deleted) when its created_at is there and the
\* instant parsed from it, or forced on a parsing failure, is not fresh.
GetFindsStale(r, t) ==
    /\ ~IsMissing(CreatedAtStr(r))
    /\ ~IsFresh(r, CreatedAtOr(ParseCreatedAt(CreatedAtStr(r)), t), t)

\* C30: clear_expired_cache and get_cached_data agree on expiry: at any
\* moment, each path of the sweep (the SQL delete and the manual scan) would
\* remove a stored entry exactly when get_cached_data would report it absent
\* as stale, an entry aged exactly the TTL and one whose created_at is
\* missing or unparseable included.
C30_SweepAgreesWithGet ==
    \A r \in BagToSet(store) :
        /\ IsSqlExpired(r, now) <=> GetFindsStale(r, now)
        /\ IsScanExpired(r, now) <=> GetFindsStale(r, now)
====
